---- MODULE Spec2Model ----
(***************************************************************************)
(* Model of the instance-segmentation core of fcn-instances-pytorch:       *)
(* the channel layout (instanceseg/utils/instance_utils.py), the label     *)
(* combiner, the permutation appliers, and the loss / metric plumbing of   *)
(* Trainer and TrainerExporter (instanceseg/train).                        *)
(*                                                                         *)
(* Conventions.  Python lists and tensors are sequences; a Python index i  *)
(* is position i + 1 of the sequence, so channel ids, class ids and slot    *)
(* ids keep their 0-based values.  A label map of one image is the         *)
(* sequence of its pixels (its shape is its length).  A call that can      *)
(* raise yields a record: the exception raised, or "none" and the value.   *)
(***************************************************************************)
EXTENDS Integers, Sequences, FiniteSets, TLC

\* ------------------------------------------------------------------ bounds
\* largest number of pixels of a label map of the combiner
MaxPix == 2
\* largest batch size
MaxBatch == 2

\* ------------------------------------------------------- program constants
\* default of the void_value parameter
DefaultVoid == -1

\* the void values the combiner is exercised with (the default and the
\* PASCAL VOC border value)
VoidVals == {DefaultVoid, 255}

\* n_instances_by_semantic_class lists the layout is built from: class 0
\* (the non-instance class) has one channel, every other class at least one
Layouts ==
  {<<1>>, <<1, 1>>, <<1, 2>>, <<1, 3>>, <<1, 1, 2>>, <<1, 2, 1>>, <<1, 2, 2>>}

\* semantic ids and instance ids a ground-truth pixel can carry, besides void
SemVals == 0 .. 2
InstVals == 0 .. 3

VARIABLES
  \* --- label combiner
  n_instances_by_semantic_id,  \* the list the layout is built from
  semantic_instance_class_list,\* the class of every channel
  instance_count_id_list,      \* the instance slot of every channel
  include_channel0,            \* include_instance_channel0
  void_value,                  \* void_value handed to the combiner
  sem_lbl, inst_lbl,           \* the two ground-truth maps of one image
  combined,                    \* result of combine (or the exception)
  combine_pc,                  \* "start" | "done"
  \* --- permutation appliers
  score,                       \* score[b][ch + 1][p]: the scores of image b
  pred_permutations,           \* pred_permutations[b][ch + 1]: one row per image
  label_preds,                 \* the predicted label map of one image
  score_permuted,              \* result of permute_scores
  label_preds_permuted,        \* result of permute_labels
  permute_pc,                  \* "start" | "scores" | "labels" | "both"
  \* --- evaluation metrics (TrainerExporter)
  ev_label_preds,              \* label_preds: one predicted map per image
  ev_permutations,             \* the list handed to compute_eval_metrics
  ev_loss_permutation,         \* per image, the row compute_loss returned for it
  ev_label_preds_permuted,     \* the predictions the metric is computed on
  eval_pc,                     \* "start" | "val" | "train"
  \* --- one batch through Trainer.train_iteration / validate_single_batch
  map_to_semantic,             \* instance_problem.map_to_semantic
  sem_shape, inst_shape,       \* sem_lbl.size(), inst_lbl.size(): (B, H, W)
  score_shape,                 \* score.size(): (B, channels, H, W)
  inst_data,                   \* the values of the caller's inst_lbl tensor
  inst_loaded,                 \* the values the data loader produced
  score_kinds,                 \* the kinds of value the score tensor holds
  loss,                        \* the kind of value of the loss, "none" before
  warned,                      \* the large-loss WARNING has been printed
  train_exc,                   \* exception the handler raised, or "none"
  loss_fcn_calls,              \* calls of the loss function
  backward_calls,              \* calls of loss.backward()
  optim_steps,                 \* calls of optim.step()
  train_pc,                    \* "start" | "train_iteration" | "validate_single_batch"
  \* --- the InstanceProblemConfig object and its readers
  problem_args,                \* the arguments InstanceProblemConfig was called with
  instance_problem,            \* result of InstanceProblemConfig(...): fields or exception
  problem_exc,                 \* exception of the last call on the object, or "none"
  gt_sem_lbl, gt_inst_lbl,     \* ground-truth maps of one image (exporter, loader)
  gt_combined,                 \* result of gt_tuple_to_combined
  loader_inst_lbl,             \* inst_lbl made by prepare_data_for_forward_pass
  problem_pc,                  \* "start" | "constructed" | "failed" | "combined" | "prepared"
  \* --- the loss objects of the Trainer and the matching loss
  matching_loss,               \* Trainer.matching_loss
  loss_object,                 \* Trainer.loss_object
  eval_loss_object_with_matching, \* Trainer.eval_loss_object_with_matching
  val_matching_override,       \* argument of compute_loss
  cost_matrices,               \* cost_matrices[b][cls + 1]: costs of image b, class cls
  loss_result,                 \* what the loss function returned and ran
  cost_matrix,                 \* the matrix handed to the assignment solver
  solution,                    \* what the assignment solver returned
  loss_pc,                     \* "start" | "built" | "computed" | "solved"
  \* --- the training loop of the Trainer
  trainer,                     \* the fields of the Trainer that train() reads and writes
  epoch,                       \* the loop variable of train()
  max_epoch,                   \* max_epoch of train()
  batch_idx,                   \* the loop variable of train_epoch()
  trace,                       \* the calls made so far: (op, iteration, model mode)
  last_val,                    \* what the last validate_split('val') saw and did
  max_mean_iu_seen,            \* the largest mean IU a 'val' validation has seen
  start_iteration,             \* state.iteration when train() was entered
  all_splits_result,           \* result of the last validate_all_splits
  loop_exc,                    \* exception train() ended with, or "none"
  loop_pc                      \* position in train(), see the loop actions

combineVars ==
  <<n_instances_by_semantic_id, semantic_instance_class_list, instance_count_id_list,
    include_channel0, void_value, sem_lbl, inst_lbl, combined, combine_pc>>

permuteVars ==
  <<score, pred_permutations, label_preds, score_permuted, label_preds_permuted,
    permute_pc>>

evalVars ==
  <<ev_label_preds, ev_permutations, ev_loss_permutation, ev_label_preds_permuted,
    eval_pc>>

trainVars ==
  <<map_to_semantic, sem_shape, inst_shape, score_shape, inst_data, inst_loaded,
    score_kinds, loss, warned, train_exc, loss_fcn_calls, backward_calls,
    optim_steps, train_pc>>

problemVars ==
  <<problem_args, instance_problem, problem_exc, gt_sem_lbl, gt_inst_lbl, gt_combined,
    loader_inst_lbl, problem_pc>>

lossVars ==
  <<matching_loss, loss_object, eval_loss_object_with_matching, val_matching_override,
    cost_matrices, loss_result, cost_matrix, solution, loss_pc>>

loopVars ==
  <<trainer, epoch, max_epoch, batch_idx, trace, last_val, max_mean_iu_seen,
    start_iteration, all_splits_result, loop_exc, loop_pc>>

vars == <<combineVars, permuteVars, evalVars, trainVars, problemVars, lossVars, loopVars>>

\* --------------------------------------------------------------- utilities
Range(s) == {s[i] : i \in 1 .. Len(s)}

SeqsUpTo(S, n) == UNION {[1 .. k -> S] : k \in 1 .. n}

RECURSIVE Repeat(_, _)
Repeat(x, k) == IF k <= 0 THEN <<>> ELSE <<x>> \o Repeat(x, k - 1)

\* the elements of a finite set of integers in ascending order (np.unique)
RECURSIVE SortedSeq(_)
SortedSeq(S) ==
  IF S = {} THEN <<>>
  ELSE LET m == CHOOSE x \in S : \A y \in S : x <= y
       IN <<m>> \o SortedSeq(S \ {m})

\* the result of a call: the value it returns, or the exception it raises
Return(v) == [exc |-> "none", val |-> v]
Raise(e) == [exc |-> e, val |-> <<>>]

\* ---------------------------------------------------------- channel layout
\* [sem_cls for sem_cls, n_channels in enumerate(n) for _ in range(n_channels)]
RECURSIVE ClassListFrom(_, _)
ClassListFrom(n, i) ==
  IF i > Len(n) THEN <<>>
  ELSE Repeat(i - 1, n[i]) \o ClassListFrom(n, i + 1)

\* mutant: one channel per class, whatever its count
get_semantic_instance_class_list_one_each(n_channels_by_semantic_id) ==
  [i \in 1 .. Len(n_channels_by_semantic_id) |-> i - 1]

get_semantic_instance_class_list(n_channels_by_semantic_id) ==
  ClassListFrom(n_channels_by_semantic_id, 1)

\* number of channels of class cls among the first k channels
CountBefore(sicl, cls, k) == Cardinality({j \in 1 .. k : sicl[j] = cls})

\* mutant: every channel of an instance class gets the first slot number
get_instance_count_id_list_no_arange(sicl, non_instance_sem_classes, include_ch0) ==
  IF \E cls \in Range(sicl) :
       cls \in non_instance_sem_classes /\ CountBefore(sicl, cls, Len(sicl)) # 1
  THEN Raise("AssertionError")
  ELSE Return([i \in 1 .. Len(sicl) |->
                 IF sicl[i] \in non_instance_sem_classes THEN 0
                 ELSE IF include_ch0 THEN 0 ELSE 1])

\* mutant: include_channel0 is read the wrong way round
get_instance_count_id_list_swapped(sicl, non_instance_sem_classes, include_ch0) ==
  IF \E cls \in Range(sicl) :
       cls \in non_instance_sem_classes /\ CountBefore(sicl, cls, Len(sicl)) # 1
  THEN Raise("AssertionError")
  ELSE Return([i \in 1 .. Len(sicl) |->
                 IF sicl[i] \in non_instance_sem_classes THEN 0
                 ELSE CountBefore(sicl, sicl[i], i - 1) + (IF include_ch0 THEN 1 ELSE 0)])

\* mutant: include_channel0 is ignored, the slots always start at 1
get_instance_count_id_list_from_one(sicl, non_instance_sem_classes, include_ch0) ==
  IF \E cls \in Range(sicl) :
       cls \in non_instance_sem_classes /\ CountBefore(sicl, cls, Len(sicl)) # 1
  THEN Raise("AssertionError")
  ELSE Return([i \in 1 .. Len(sicl) |->
                 IF sicl[i] \in non_instance_sem_classes THEN 0
                 ELSE CountBefore(sicl, sicl[i], i - 1) + 1])

\* for every class: the non-instance class must have one channel and gets
\* slot 0; the channels of another class get arange(count) + (0 or 1)
get_instance_count_id_list(sicl, non_instance_sem_classes, include_ch0) ==
  IF \E cls \in Range(sicl) :
       cls \in non_instance_sem_classes /\ CountBefore(sicl, cls, Len(sicl)) # 1
  THEN Raise("AssertionError")
  ELSE Return([i \in 1 .. Len(sicl) |->
                 IF sicl[i] \in non_instance_sem_classes THEN 0
                 ELSE CountBefore(sicl, sicl[i], i - 1) + (IF include_ch0 THEN 0 ELSE 1)])

\* ----------------------------------------------------------- label combiner
\* the channel indices in the order the two nested loops visit them: classes
\* in the ascending order of np.unique, channels of a class by index
RECURSIVE ChannelOrderFrom(_, _)
ChannelOrderFrom(sicl, classes) ==
  IF classes = <<>> THEN <<>>
  ELSE SortedSeq({i \in 1 .. Len(sicl) : sicl[i] = Head(classes)})
         \o ChannelOrderFrom(sicl, Tail(classes))

ChannelOrder(sicl) == ChannelOrderFrom(sicl, SortedSeq(Range(sicl)))

\* y after the masked assignments of the channels order[k], order[k+1], ...
RECURSIVE CombineLoop(_, _, _, _, _, _, _)
CombineLoop(y, sem, inst, sicl, icil, order, k) ==
  IF k > Len(order) THEN y
  ELSE LET pos == order[k]
           sem_inst_idx == pos - 1
           y2 == [p \in 1 .. Len(y) |->
                    IF sem[p] = sicl[pos] /\ inst[p] = icil[pos]
                    THEN sem_inst_idx ELSE y[p]]
       IN CombineLoop(y2, sem, inst, sicl, icil, order, k + 1)

\* mutant: y starts as the copy of inst_lbl, the fill with void_value is lost
combine_without_void_fill(sem, inst, sicl, icil, void) ==
  IF Len(sem) # Len(inst) THEN Raise("AssertionError")
  ELSE Return(CombineLoop(inst, sem, inst, sicl, icil, ChannelOrder(sicl), 1))

\* mutant: an instance beyond the budget of its class takes the last channel
\* of the class
combine_overflow_to_last(sem, inst, sicl, icil, void) ==
  IF Len(sem) # Len(inst) THEN Raise("AssertionError")
  ELSE LET y == CombineLoop([p \in 1 .. Len(inst) |-> void], sem, inst, sicl, icil,
                            ChannelOrder(sicl), 1)
           last(cls) == CHOOSE i \in 1 .. Len(sicl) :
                          sicl[i] = cls /\ \A j \in 1 .. Len(sicl) : sicl[j] = cls => j <= i
       IN Return([p \in 1 .. Len(y) |->
                    IF y[p] = void /\ sem[p] \in Range(sicl) /\ inst[p] > icil[last(sem[p])]
                    THEN last(sem[p]) - 1 ELSE y[p]])

\* assert sem_lbl.shape == inst_lbl.shape; y = copy of inst_lbl filled with
\* void_value; one masked assignment per channel
combine_semantic_and_instance_labels(sem, inst, sicl, icil, void) ==
  IF Len(sem) # Len(inst) THEN Raise("AssertionError")
  ELSE Return(CombineLoop([p \in 1 .. Len(inst) |-> void], sem, inst, sicl, icil,
                          ChannelOrder(sicl), 1))

\* the classes that have a single channel and no instances (the default of
\* the parameter non_instance_sem_classes)
NonInstanceSemClasses == {0}

\* ------------------------------------------------- InstanceProblemConfig
\* the largest element of a non-empty finite set of integers (max)
MaxOf(S) == CHOOSE x \in S : \A y \in S : y <= x

\* the S x N matrix (compose_transposed) whose row s marks the channels of
\* semantic class s; max() of an empty class list raises ValueError
get_instance_to_semantic_mapping_from_sem_inst_class_list(sicl) ==
  IF sicl = <<>> THEN Raise("ValueError")
  ELSE LET n_instance_classes == Len(sicl)
           n_semantic_classes == MaxOf(Range(sicl)) + 1
       IN Return([s \in 1 .. n_semantic_classes |->
                    [i \in 1 .. n_instance_classes |-> IF sicl[i] = s - 1 THEN 1 ELSE 0]])

get_instance_to_semantic_mapping(n) ==
  get_instance_to_semantic_mapping_from_sem_inst_class_list(
    get_semantic_instance_class_list(n))

\* nn.Conv2d(in_channels, out_channels, kernel_size=1): with no input channel
\* the weight initialisation divides by sqrt(0) in some versions of the library
\* and is a no-op in others
Conv2d(in_channels) ==
  IF in_channels = 0 THEN {"none", "ZeroDivisionError"} ELSE {"none"}

\* semantic_class_names is None, or a list of names
NoNames == [is_none |-> TRUE, names |-> <<>>]
NameList(names) == [is_none |-> FALSE, names |-> names]

\* InstanceProblemConfig.__init__ (semantic_vals left to its default): the
\* set of outcomes of the construction, the fields of the object or the
\* exception of the first statement that raises
InstanceProblemConfig(n, names, void, include0, mts) ==
  LET nis == IF mts THEN [i \in 1 .. Len(n) |-> 1] ELSE n
      msicl == get_semantic_instance_class_list(n)
      sicl == get_semantic_instance_class_list(nis)
      n_sem == Len(n)
      icil == get_instance_count_id_list(sicl, NonInstanceSemClasses, include0)
      micil == get_instance_count_id_list(msicl, NonInstanceSemClasses, include0)
      matrix == get_instance_to_semantic_mapping(nis)
      fields == [map_to_semantic |-> mts,
                 semantic_class_names |-> names,
                 semantic_vals |-> [i \in 1 .. Len(n) |-> i - 1],
                 void_value |-> void,
                 include_instance_channel0 |-> include0,
                 n_instances_by_semantic_id |-> nis,
                 model_n_instances_by_semantic_id |-> nis,
                 model_semantic_instance_class_list |-> msicl,
                 semantic_instance_class_list |-> sicl,
                 n_semantic_classes |-> n_sem,
                 n_classes |-> IF mts THEN n_sem ELSE Len(msicl),
                 sem_ids_by_instance_id |-> get_semantic_instance_class_list(nis),
                 instance_count_id_list |-> icil.val,
                 model_instance_count_id_list |-> micil.val,
                 instance_to_semantic_mapping_matrix |-> matrix.val]
  IN IF icil.exc # "none" THEN {Raise(icil.exc)}
     ELSE IF micil.exc # "none" THEN {Raise(micil.exc)}
     ELSE IF matrix.exc # "none" THEN {Raise(matrix.exc)}
     ELSE {IF e = "none" THEN Return(fields) ELSE Raise(e) : e \in Conv2d(Len(msicl))}

\* mutant: the setter also takes the number of classes from the new list
set_class_names_resizing(cfg, class_names) ==
  IF class_names.is_none
  THEN Return([cfg EXCEPT !.semantic_class_names = class_names])
  ELSE Return([cfg EXCEPT !.semantic_class_names = class_names,
                          !.n_semantic_classes = Len(class_names.names)])

\* InstanceProblemConfig.set_class_names: the object after the call, or the
\* AssertionError of a list of the wrong length
set_class_names(cfg, class_names) ==
  IF ~(class_names.is_none \/ Len(class_names.names) = cfg.n_semantic_classes)
  THEN Raise("AssertionError")
  ELSE Return([cfg EXCEPT !.semantic_class_names = class_names])

\* TrainerExporter.gt_tuple_to_combined: combine with the two lists of the
\* object; void_value is not passed, so the combiner uses its default
gt_tuple_to_combined(cfg, sem, inst) ==
  combine_semantic_and_instance_labels(sem, inst, cfg.semantic_instance_class_list,
                                       cfg.instance_count_id_list, DefaultVoid)

\* Trainer.prepare_data_for_forward_pass up to the labels it returns: the
\* pair of the loader, or for a loader of semantic labels only the target
\* and zeros_like(sem_lbl) with inst_lbl[sem_lbl == -1] = -1
prepare_data_for_forward_pass(loader_semantic_lbl_only, use_semantic_loss, target) ==
  IF ~loader_semantic_lbl_only THEN Return(target)
  ELSE IF ~use_semantic_loss THEN Raise("AssertionError")
  ELSE Return(<<target, [p \in 1 .. Len(target) |-> IF target[p] = -1 THEN -1 ELSE 0]>>)

\* ----------------------------------------------------- permutation appliers
\* the layout of the model whose scores are permuted: [0, 1, 1, 1]
PermLayout == <<1, 3>>
PermClassList == get_semantic_instance_class_list(PermLayout)
NChannels == Len(PermClassList)
Channels == 0 .. NChannels - 1

\* score values of one channel at one pixel
ScoreVals == {0, 1}
\* pixels of the images whose scores are permuted
ScorePixels == 1 .. 1

\* what the matching loss can return for one image: a bijection of the
\* channels that keeps every channel within its semantic class
ClassPermutations ==
  {pm \in [1 .. NChannels -> Channels] :
     /\ \A a, b \in 1 .. NChannels : pm[a] = pm[b] => a = b
     /\ \A a \in 1 .. NChannels : PermClassList[pm[a] + 1] = PermClassList[a]}

\* a tensor expression of shape src can be stored into a slice of shape dst:
\* the leading dimensions of size 1 are dropped, the rest is broadcast
RECURSIVE StripOnes(_)
StripOnes(shape) ==
  IF shape # <<>> /\ Head(shape) = 1 THEN StripOnes(Tail(shape)) ELSE shape

AssignableTo(src, dst) ==
  \/ src = dst
  \/ LET s == StripOnes(src)
     IN /\ Len(s) <= Len(dst)
        /\ \A k \in 1 .. Len(s) :
             s[Len(s) - k + 1] = dst[Len(dst) - k + 1] \/ s[Len(s) - k + 1] = 1

\* mutant: the channel goes where the permutation points instead of coming
\* from there
permute_scores_scatter(sc, perms) ==
  LET B == Len(sc)
      P == Len(sc[1][1])
  IN IF ~AssignableTo(<<B, Len(perms), P>>, <<B, P>>)
     THEN Raise("RuntimeError")
     ELSE Return([b \in 1 .. B |-> [ch \in 1 .. Len(sc[b]) |->
                   sc[b][(CHOOSE c \in 1 .. Len(perms[1]) : perms[1][c] = ch - 1)]]])

\* for every channel ch:
\*   score_permuted[:, ch, :, :] = score[:, pred_permutations[:, ch], :, :]
\* The right-hand side indexes the channel axis with the whole column ch of
\* pred_permutations, so its shape is (B, rows, H, W), stored into a slice of
\* shape (B, H, W) (H x W is the pixel axis here).  The store succeeds only for
\* a batch of one image, where it selects channel pred_permutations[0, ch].
permute_scores(sc, perms) ==
  LET B == Len(sc)
      P == Len(sc[1][1])
  IN IF ~AssignableTo(<<B, Len(perms), P>>, <<B, P>>)
     THEN Raise("RuntimeError")
     ELSE Return([b \in 1 .. B |-> [ch \in 1 .. Len(sc[b]) |->
                   sc[b][perms[1][ch] + 1]]])

\* label_preds_permuted after rows idx.. of the permutations, row idx from
\* its entry new on; every test reads the original label_preds
RECURSIVE PermuteLabelsLoop(_, _, _, _, _)
PermuteLabelsLoop(out, lp, perms, idx, new) ==
  IF idx > Len(perms) THEN out
  ELSE IF new > Len(perms[idx]) THEN PermuteLabelsLoop(out, lp, perms, idx + 1, 1)
  ELSE LET new_channel == new - 1
           old_channel == perms[idx][new]
           out2 == [p \in 1 .. Len(out) |->
                      IF lp[p] = old_channel THEN new_channel ELSE out[p]]
       IN PermuteLabelsLoop(out2, lp, perms, idx, new + 1)

\* mutant: the value v becomes permutation[v]
permute_labels_forward(lp, perms) ==
  [p \in 1 .. Len(lp) |->
     IF lp[p] + 1 \in 1 .. Len(perms[Len(perms)]) THEN perms[Len(perms)][lp[p] + 1]
     ELSE lp[p]]

\* for idx in range(rows): for new_channel, old_channel in enumerate(row):
\*   label_preds_permuted[label_preds == old_channel] = new_channel
permute_labels(lp, perms) == PermuteLabelsLoop(lp, lp, perms, 1, 1)

\* score.max(1)[1] of one image: per pixel the channel of the largest score
\* (the lowest such channel when the maximum is not unique)
ArgMax(img) ==
  [p \in 1 .. Len(img[1]) |->
     (CHOOSE c \in 1 .. Len(img) :
        /\ \A d \in 1 .. Len(img) : img[d][p] <= img[c][p]
        /\ \A d \in 1 .. c - 1 : img[d][p] < img[c][p]) - 1]

UniqueMax(img, p) ==
  Cardinality({c \in 1 .. Len(img) : \A d \in 1 .. Len(img) : img[d][p] <= img[c][p]}) = 1

\* ------------------------------------------- loss objects and the matching
\* the layout of the problem the Trainer is built for: [0, 1, 1]
EngineLayout == <<1, 2>>
EngineClassList == get_semantic_instance_class_list(EngineLayout)
EngineCountIdList ==
  get_instance_count_id_list(EngineClassList, NonInstanceSemClasses, FALSE).val

\* the costs an entry of a cost matrix can have
CostVals == {0, 1}

\* loss_object_factory(loss_type, semantic_instance_class_list,
\* instance_count_id_list, matching, size_average): the loss object keeps
\* what it was built with
loss_object_factory(loss_type, sicl, icil, matching, size_average) ==
  [loss_type |-> loss_type, semantic_instance_class_list |-> sicl,
   instance_count_id_list |-> icil, matching |-> matching,
   size_average |-> size_average]

NoLossObject == loss_object_factory("none", <<>>, <<>>, FALSE, FALSE)

\* mutant: the loss object is always built with matching
build_my_loss_always_matching(self, matching_override) ==
  loss_object_factory(self.loss_type, self.semantic_instance_class_list,
                      self.instance_count_id_list, TRUE, self.size_average)

\* Trainer.build_my_loss; matching_override is "None", "True" or "False"
build_my_loss(self, matching_override) ==
  LET matching == IF matching_override # "None" THEN matching_override = "True"
                  ELSE self.matching_loss
  IN loss_object_factory(self.loss_type, self.semantic_instance_class_list,
                         self.instance_count_id_list, matching, self.size_average)

\* the loss object whose loss_fcn compute_loss calls
loss_object_of_compute_loss(override, my_loss_object, my_eval_loss_object) ==
  IF ~override THEN my_loss_object ELSE my_eval_loss_object

\* the assignments of the m ground-truth instances (columns) to distinct
\* predicted slots (rows) out of k: f[j] is the slot of instance j
InjectiveMaps(m, k) ==
  {f \in [1 .. m -> 1 .. k] : \A i, j \in 1 .. m : f[i] = f[j] => i = j}

RECURSIVE AssignmentCost(_, _, _)
AssignmentCost(C, f, j) ==
  IF j = 0 THEN 0 ELSE C[f[j]][j] + AssignmentCost(C, f, j - 1)

\* f comes before g in the lowest-index-first order
LexLess(f, g) ==
  \E i \in 1 .. Len(f) : f[i] < g[i] /\ \A j \in 1 .. i - 1 : f[j] = g[j]

\* the assignment solver on a k x m matrix (k predicted slots, m <= k
\* ground-truth instances), optimising sign * cost: the best assignment, the
\* first one among equals; the unmatched slots take the remaining
\* ground-truth ids m, m + 1, ... in slot order
SolveBy(C, sign) ==
  LET k == Len(C)
      m == IF k = 0 THEN 0 ELSE Len(C[1])
      cands == InjectiveMaps(m, k)
      cost(f) == sign * AssignmentCost(C, f, m)
      costs == {cost(g) : g \in cands}
      least == CHOOSE c \in costs : \A d \in costs : c <= d
      best == {g \in cands : cost(g) = least}
      f == CHOOSE x \in best : \A g \in best : x = g \/ LexLess(x, g)
      matched == {f[j] : j \in 1 .. m}
      unmatched_before(i) == Cardinality({r \in 1 .. i - 1 : r \notin matched})
  IN [permutation |->
        [i \in 1 .. k |->
           IF i \in matched THEN (CHOOSE j \in 1 .. m : f[j] = i) - 1
           ELSE m + unmatched_before(i)],
      achieved_cost |-> AssignmentCost(C, f, m)]

\* mutant: the solver maximises the total cost
solve_maximizing(C) == SolveBy(C, -1)

\* solve(cost_matrix) -> permutation, achieved_cost
solve(C) == SolveBy(C, 1)

\* the first channel (position) of class cls
FirstChannel(sicl, cls) == CHOOSE c \in 1 .. Len(sicl) :
                             sicl[c] = cls /\ \A d \in 1 .. c - 1 : sicl[d] # cls

\* compute(scores, sem_lbl, inst_lbl) of a loss object, on the cost
\* matrices the images give: with matching one cost matrix and one solver
\* call per image and class, the per-class permutations concatenated;
\* without matching the identity permutation and neither of the two
compute(my_loss_object, matrices) ==
  LET sicl == my_loss_object.semantic_instance_class_list
      classes == Range(sicl)
  IN IF ~my_loss_object.matching
     THEN [permutations |-> [b \in 1 .. Len(matrices) |-> [c \in 1 .. Len(sicl) |-> c - 1]],
           cost_matrix_builds |-> 0,
           solver_calls |-> 0]
     ELSE [permutations |->
             [b \in 1 .. Len(matrices) |->
                [c \in 1 .. Len(sicl) |->
                   (FirstChannel(sicl, sicl[c]) - 1)
                     + solve(matrices[b][sicl[c] + 1]).permutation[
                         CountBefore(sicl, sicl[c], c)]]],
           cost_matrix_builds |-> Len(matrices) * Cardinality(classes),
           solver_calls |-> Len(matrices) * Cardinality(classes)]

\* ------------------------------------------------------------ initial state
InitCombine ==
  /\ n_instances_by_semantic_id = <<1>>
  /\ semantic_instance_class_list = <<0>>
  /\ instance_count_id_list = <<0>>
  /\ include_channel0 = FALSE
  /\ void_value = DefaultVoid
  /\ sem_lbl = <<>>
  /\ inst_lbl = <<>>
  /\ combined = Return(<<>>)
  /\ combine_pc = "start"

InitPermute ==
  /\ score = <<>>
  /\ pred_permutations = <<>>
  /\ label_preds = <<>>
  /\ score_permuted = Return(<<>>)
  /\ label_preds_permuted = <<>>
  /\ permute_pc = "start"

InitEval ==
  /\ ev_label_preds = <<>>
  /\ ev_permutations = <<>>
  /\ ev_loss_permutation = <<>>
  /\ ev_label_preds_permuted = <<>>
  /\ eval_pc = "start"

InitTrain ==
  /\ map_to_semantic = FALSE
  /\ sem_shape = <<>>
  /\ inst_shape = <<>>
  /\ score_shape = <<>>
  /\ inst_data = <<>>
  /\ inst_loaded = <<>>
  /\ score_kinds = {}
  /\ loss = "none"
  /\ warned = FALSE
  /\ train_exc = "none"
  /\ loss_fcn_calls = 0
  /\ backward_calls = 0
  /\ optim_steps = 0
  /\ train_pc = "start"

\* no InstanceProblemConfig has been constructed yet
InitProblem ==
  /\ problem_args = [n |-> <<>>, names |-> NoNames, void |-> DefaultVoid,
                     include0 |-> FALSE, mts |-> FALSE]
  /\ instance_problem = Raise("unconstructed")
  /\ problem_exc = "none"
  /\ gt_sem_lbl = <<>>
  /\ gt_inst_lbl = <<>>
  /\ gt_combined = Return(<<>>)
  /\ loader_inst_lbl = <<>>
  /\ problem_pc = "start"

\* no Trainer has been constructed and nothing has been solved yet
InitLoss ==
  /\ matching_loss = TRUE
  /\ loss_object = NoLossObject
  /\ eval_loss_object_with_matching = NoLossObject
  /\ val_matching_override = FALSE
  /\ cost_matrices = <<>>
  /\ loss_result = [permutations |-> <<>>, cost_matrix_builds |-> 0, solver_calls |-> 0]
  /\ cost_matrix = <<>>
  /\ solution = [permutation |-> <<>>, achieved_cost |-> 0]
  /\ loss_pc = "start"

\* TrainingState(max_iteration)
TrainingState(max_iteration) ==
  [iteration |-> 0, epoch |-> 0, max_iteration |-> max_iteration]

\* the result slots of a validation before any validation has run
NoValidation ==
  [ran |-> FALSE, mean_iu |-> 0, best_before |-> 0, saved |-> FALSE, copied |-> FALSE,
   mode_before |-> TRUE, mode_after |-> TRUE]

\* no Trainer has been constructed for a training run yet
InitLoop ==
  /\ trainer = [state |-> TrainingState(0), interval_validate |-> 1,
                len_train_loader |-> 1, lr_scheduler |-> FALSE,
                tensorboard_writer |-> FALSE, train_loader_for_val |-> FALSE,
                model_training |-> TRUE, best_mean_iu |-> 0]
  /\ epoch = 0
  /\ max_epoch = 0
  /\ batch_idx = 0
  /\ trace = <<>>
  /\ last_val = NoValidation
  /\ max_mean_iu_seen = 0
  /\ start_iteration = 0
  /\ all_splits_result = Raise("not called")
  /\ loop_exc = "none"
  /\ loop_pc = "start"

Init ==
  InitCombine /\ InitPermute /\ InitEval /\ InitTrain /\ InitProblem /\ InitLoss /\ InitLoop

\* ------------------------------------------------ specification: combiner
\* one call of combine_semantic_and_instance_labels on the maps of one image,
\* with the two lists derived from a layout
Combine ==
  /\ combine_pc = "start"
  /\ n_instances_by_semantic_id' \in Layouts
  /\ include_channel0' \in BOOLEAN
  /\ semantic_instance_class_list' =
       get_semantic_instance_class_list(n_instances_by_semantic_id')
  /\ instance_count_id_list' =
       get_instance_count_id_list(semantic_instance_class_list', NonInstanceSemClasses,
                                  include_channel0').val
  /\ void_value' \in VoidVals
  /\ sem_lbl' \in SeqsUpTo(SemVals \cup {void_value'}, MaxPix)
  /\ inst_lbl' \in SeqsUpTo(InstVals \cup {void_value'}, MaxPix)
  /\ combined' = combine_semantic_and_instance_labels(
                   sem_lbl', inst_lbl', semantic_instance_class_list',
                   instance_count_id_list', void_value')
  /\ combine_pc' = "done"
  /\ UNCHANGED <<permuteVars, evalVars, trainVars, problemVars, lossVars, loopVars>>

NextCombine == Combine

SpecCombine == Init /\ [][NextCombine]_vars

\* the channels (positions) that own the (sem, inst) pair of pixel p
Owners(p) ==
  {c \in 1 .. Len(semantic_instance_class_list) :
     /\ semantic_instance_class_list[c] = sem_lbl[p]
     /\ instance_count_id_list[c] = inst_lbl[p]}

CombineReturned == combine_pc = "done" /\ combined.exc = "none"

\* C8: with the lists derived from a valid n_instances_by_semantic_class, every
\* non-void pixel of the output of combine carries a channel c whose class and
\* slot are the pixel's sem and inst; a pixel matches at most one channel, and
\* exactly one iff its output is not void.
C8_CombineInverts ==
  CombineReturned =>
    \A p \in 1 .. Len(combined.val) :
      /\ Cardinality(Owners(p)) <= 1
      /\ (combined.val[p] # void_value) <=> (Cardinality(Owners(p)) = 1)
      /\ combined.val[p] # void_value =>
            /\ combined.val[p] + 1 \in 1 .. Len(semantic_instance_class_list)
            /\ semantic_instance_class_list[combined.val[p] + 1] = sem_lbl[p]
            /\ instance_count_id_list[combined.val[p] + 1] = inst_lbl[p]

\* a two-pixel image whose pixels lie on the second instance of class 1 and on
\* the background has been combined into channels 2 and 0
C8_Witness ==
  /\ CombineReturned
  /\ n_instances_by_semantic_id = <<1, 2, 2>>
  /\ ~include_channel0
  /\ sem_lbl = <<1, 0>> /\ inst_lbl = <<2, 0>>
  /\ combined.val = <<2, 0>>

\* C9: a pixel whose (sem, inst) pair no channel owns is void in the output,
\* combine returns (it does not raise) on maps of one shape, and every output
\* value is a channel index or void.
C9_OverflowIsVoid ==
  combine_pc = "done" =>
    /\ Len(sem_lbl) = Len(inst_lbl) => combined.exc = "none"
    /\ combined.exc = "none" =>
          \A p \in 1 .. Len(combined.val) :
            /\ Owners(p) = {} => combined.val[p] = void_value
            /\ combined.val[p] \in
                 (0 .. Len(semantic_instance_class_list) - 1) \cup {void_value}

\* the third instance of a class budgeted for two channels has come out void,
\* next to a pixel of the second instance that kept its channel
C9_Witness ==
  /\ CombineReturned
  /\ n_instances_by_semantic_id = <<1, 2>>
  /\ ~include_channel0
  /\ sem_lbl = <<1, 1>> /\ inst_lbl = <<3, 2>>
  /\ combined.val = <<void_value, 2>>

\* C10: a pixel that is void in sem_lbl or in inst_lbl is void in the output.
C10_VoidPropagates ==
  CombineReturned =>
    \A p \in 1 .. Len(combined.val) :
      (sem_lbl[p] = void_value \/ inst_lbl[p] = void_value) => combined.val[p] = void_value

\* a pixel void only in sem_lbl and a pixel void only in inst_lbl, both of
\* which came out void
C10_Witness ==
  /\ CombineReturned
  /\ Len(sem_lbl) = 2
  /\ sem_lbl[1] = void_value /\ inst_lbl[1] = 1
  /\ sem_lbl[2] = 1 /\ inst_lbl[2] = void_value
  /\ combined.val = <<void_value, void_value>>

\* ------------------------------------- specification: permutation appliers
Images == [1 .. NChannels -> [ScorePixels -> ScoreVals]]

\* permute_scores on the scores of a batch and the permutations of the batch
PermuteScores ==
  /\ permute_pc = "start"
  /\ \E B \in 1 .. MaxBatch :
       /\ score' \in [1 .. B -> Images]
       /\ pred_permutations' \in [1 .. B -> ClassPermutations]
  /\ score_permuted' = permute_scores(score', pred_permutations')
  /\ permute_pc' = "scores"
  /\ UNCHANGED <<label_preds, label_preds_permuted>>
  /\ UNCHANGED <<combineVars, evalVars, trainVars, problemVars, lossVars, loopVars>>

\* permute_labels on a predicted label map and the permutations of a batch
PermuteLabels ==
  /\ permute_pc = "start"
  /\ \E B \in 1 .. MaxBatch : pred_permutations' \in [1 .. B -> ClassPermutations]
  /\ label_preds' \in [ScorePixels -> Channels \cup {DefaultVoid}]
  /\ label_preds_permuted' = permute_labels(label_preds', pred_permutations')
  /\ permute_pc' = "labels"
  /\ UNCHANGED <<score, score_permuted>>
  /\ UNCHANGED <<combineVars, evalVars, trainVars, problemVars, lossVars, loopVars>>

\* the other form on the same image: the argmax of the unpermuted scores of
\* the first image, then permute_labels with the same permutations
PermuteLabelsOfArgMax ==
  /\ permute_pc = "scores"
  /\ label_preds' = ArgMax(score[1])
  /\ label_preds_permuted' = permute_labels(label_preds', pred_permutations)
  /\ permute_pc' = "both"
  /\ UNCHANGED <<score, pred_permutations, score_permuted>>
  /\ UNCHANGED <<combineVars, evalVars, trainVars, problemVars, lossVars, loopVars>>

NextPermute == PermuteScores \/ PermuteLabels \/ PermuteLabelsOfArgMax

SpecPermute == Init /\ [][NextPermute]_vars

\* the channel that permutation row pm sends to channel v: the c with pm[c] = v
InverseAt(pm, v) == (CHOOSE c \in 1 .. Len(pm) : pm[c] = v) - 1

LabelsPermutedByOneRow == permute_pc = "labels" /\ Len(pred_permutations) = 1

\* C2 as stated: permute_labels with one bijective permutation replaces every
\* channel id v of the label map by permutation[v].
C2_LabelsForward ==
  LabelsPermutedByOneRow =>
    \A p \in 1 .. Len(label_preds) :
      label_preds[p] \in Channels =>
        label_preds_permuted[p] = pred_permutations[1][label_preds[p] + 1]

\* C2 amended: permute_labels with one bijective permutation replaces every
\* channel id v of the label map by the channel c with permutation[c] = v (the
\* inverse of the permutation), and leaves every other value (void) as it is.
C2_LabelsInverse ==
  LabelsPermutedByOneRow =>
    \A p \in 1 .. Len(label_preds) :
      IF label_preds[p] \in Channels
      THEN label_preds_permuted[p] = InverseAt(pred_permutations[1], label_preds[p])
      ELSE label_preds_permuted[p] = label_preds[p]

\* a map with label 2 has been permuted by the 3-cycle [0, 2, 3, 1] into
\* label 1, the position of 2 in the permutation (its entry for 2 is 3)
C2_Witness ==
  /\ LabelsPermutedByOneRow
  /\ pred_permutations[1] = <<0, 2, 3, 1>>
  /\ label_preds = <<2>>
  /\ label_preds_permuted = <<1>>

\* C3: for a batch of any size, permute_scores returns a tensor of the shape
\* of score with output[b, ch] = score[b, pred_permutations[b, ch]].
C3_ScoresPerImage ==
  permute_pc \in {"scores", "both"} =>
    /\ score_permuted.exc = "none"
    /\ Len(score_permuted.val) = Len(score)
    /\ \A b \in 1 .. Len(score_permuted.val) :
         /\ Len(score_permuted.val[b]) = Len(score[b])
         /\ \A ch \in 1 .. Len(score[b]) :
              score_permuted.val[b][ch] = score[b][pred_permutations[b][ch] + 1]

SingleImageBothForms ==
  permute_pc = "both" /\ Len(score) = 1 /\ score_permuted.exc = "none"

\* C4: for one image and a bijective permutation, the argmax of the permuted
\* scores is the permuted argmax of the scores at every pixel whose maximum
\* score is unique.
C4_FormsAgree ==
  SingleImageBothForms =>
    \A p \in ScorePixels :
      UniqueMax(score[1], p) =>
        ArgMax(score_permuted.val[1])[p] = label_preds_permuted[p]

\* the scores of one image peak at channel 2; under the 3-cycle [0, 2, 3, 1]
\* both forms give label 1
C4_Witness ==
  /\ SingleImageBothForms
  /\ pred_permutations[1] = <<0, 2, 3, 1>>
  /\ UniqueMax(score[1], 1)
  /\ ArgMax(score[1]) = <<2>>
  /\ ArgMax(score_permuted.val[1]) = <<1>>
  /\ label_preds_permuted = <<1>>

\* ------------------------------------------ specification: evaluation metrics
\* numbers of batches of a data loader
LoaderLens == {1, 2}

\* the predicted label map of one image: the argmax channel of every pixel
PredMaps == [ScorePixels -> Channels]

RECURSIVE Flatten(_)
Flatten(batches) ==
  IF batches = <<>> THEN <<>> ELSE Head(batches) \o Flatten(Tail(batches))

Min(a, b) == IF a < b THEN a ELSE b

\* the predictions label_accuracy_score is called with:
\*   [permute_labels(label_pred, perms)
\*    for label_pred, perms in zip(label_preds, permutations)]
compute_eval_metrics(lps, permutations) ==
  [k \in 1 .. Min(Len(lps), Len(permutations)) |-> permute_labels(lps[k], permutations[k])]

\* validate_split: every batch appends its images to label_preds and its
\* (B x channels) array to pred_permutations; run_post_val_epoch hands both
\* lists to compute_eval_metrics
ValidateSplit ==
  /\ eval_pc = "start"
  /\ \E B \in 1 .. MaxBatch, nb \in LoaderLens :
       \E preds \in [1 .. nb -> [1 .. B -> PredMaps]],
          perms \in [1 .. nb -> [1 .. B -> ClassPermutations]] :
         /\ ev_label_preds' = Flatten(preds)
         /\ ev_permutations' = perms
         /\ ev_loss_permutation' = Flatten(perms)
         /\ ev_label_preds_permuted' = compute_eval_metrics(Flatten(preds), perms)
  /\ eval_pc' = "val"
  /\ UNCHANGED <<combineVars, permuteVars, trainVars, problemVars, lossVars, loopVars>>

\* run_post_train_iteration: for every image of the batch,
\*   compute_eval_metrics(label_trues=[lt_combined], label_preds=[lp],
\*                        permutations=[pred_permutations])
RunPostTrainIteration ==
  /\ eval_pc = "start"
  /\ \E B \in 1 .. MaxBatch :
       \E preds \in [1 .. B -> PredMaps], perms \in [1 .. B -> ClassPermutations] :
         /\ ev_label_preds' = preds
         /\ ev_permutations' = <<perms>>
         /\ ev_loss_permutation' = perms
         /\ ev_label_preds_permuted' =
              [k \in 1 .. B |-> compute_eval_metrics(<<preds[k]>>, <<perms>>)[1]]
  /\ eval_pc' = "train"
  /\ UNCHANGED <<combineVars, permuteVars, trainVars, problemVars, lossVars, loopVars>>

NextEval == ValidateSplit \/ RunPostTrainIteration

SpecEval == Init /\ [][NextEval]_vars

\* C1: for every image of every batch, the prediction the metric is computed
\* on is the image's predicted map permuted by the row compute_loss returned
\* for that image, and every image takes part in the metric.
C1_MetricUsesOwnPermutation ==
  eval_pc # "start" =>
    /\ Len(ev_label_preds_permuted) = Len(ev_label_preds)
    /\ \A k \in 1 .. Len(ev_label_preds_permuted) :
         ev_label_preds_permuted[k] =
           permute_labels(ev_label_preds[k], <<ev_loss_permutation[k]>>)

\* ------------------------------------- specification: one batch in the trainer
\* (H, W) of the images of a batch
ImageSizes == {<<1, 1>>, <<2, 1>>, <<1, 2>>}
LabelShapes == {<<b, hw[1], hw[2]>> : b \in 1 .. MaxBatch, hw \in ImageSizes}
ScoreShapes == {<<b, NChannels, hw[1], hw[2]>> : b \in 1 .. MaxBatch, hw \in ImageSizes}

\* instance ids of the pixels of a training batch
BatchInstVals == 0 .. 2

\* kinds of floating-point value; "large" is a finite value above 1e4
ValueKinds == {"finite", "nan", "inf", "-inf"}
\* what a score tensor holds: finite values, and possibly values of one
\* non-finite kind
ScoreContents == {{"finite", k} : k \in ValueKinds}
LossValueKinds == {"finite", "large", "nan", "inf", "-inf"}

\* the loss function returns (permutations, total_loss, loss_components); a
\* NaN score makes the total loss NaN, otherwise the loss can be of any kind
loss_fcn(kinds) == IF "nan" \in kinds THEN {"nan"} ELSE LossValueKinds

\* inst_lbl[inst_lbl > 1] = 1
ClampToOne(data) == [k \in 1 .. Len(data) |-> IF data[k] > 1 THEN 1 ELSE data[k]]

\* mutant: only the two label maps are compared with each other
compute_loss_labels_only(sc_shape, s_shape, i_shape, i_data, mts, avg_kind) ==
  IF ~(s_shape = i_shape)
  THEN [exc |-> "Exception", inst |-> i_data, loss |-> "none", calls |-> 0]
  ELSE [exc |-> "none",
        inst |-> IF mts THEN ClampToOne(i_data) ELSE i_data,
        loss |-> avg_kind,
        calls |-> 1]

\* Trainer.compute_loss: the size check, the clamp of inst_lbl when
\* map_to_semantic, one call of the loss function, the division by the batch
\* size (avg_kind: the kind of total_loss / score.size(0), which is a kind the
\* loss function can return).  inst is the caller's inst_lbl afterwards, calls
\* the number of calls of the loss function.
compute_loss(sc_shape, s_shape, i_shape, i_data, mts, avg_kind) ==
  IF ~(s_shape = i_shape /\ i_shape = <<sc_shape[1], sc_shape[3], sc_shape[4]>>)
  THEN [exc |-> "Exception", inst |-> i_data, loss |-> "none", calls |-> 0]
  ELSE [exc |-> "none",
        inst |-> IF mts THEN ClampToOne(i_data) ELSE i_data,
        loss |-> avg_kind,
        calls |-> 1]

\* is_nan(val) and any_nan(tensor) of instanceseg.models.model_utils: the value
\* is, or the tensor holds, a NaN
is_nan(kind) == kind = "nan"
any_nan(kinds) == "nan" \in kinds

\* debug_check_values_are_valid: is_nan(loss) raises, a loss above 1e4 prints
\* a WARNING, any_nan(score) raises
debug_check_values_are_valid(loss_kind, kinds) ==
  IF is_nan(loss_kind) THEN [exc |-> "ValueError", warned |-> FALSE]
  ELSE [exc |-> IF any_nan(kinds) THEN "ValueError" ELSE "none",
        warned |-> loss_kind \in {"large", "inf"}]

NumElements(shape) == shape[1] * shape[2] * shape[3]

\* the batch a handler is called with and the scores the model returns for it
DrawBatch ==
  /\ map_to_semantic' \in BOOLEAN
  /\ sem_shape' \in LabelShapes
  /\ inst_shape' \in LabelShapes
  /\ score_shape' \in ScoreShapes
  /\ inst_loaded' \in [1 .. NumElements(inst_shape') -> BatchInstVals]
  /\ score_kinds' \in ScoreContents

\* Trainer.train_iteration up to the exporter call: forward pass,
\* compute_loss, debug_check_values_are_valid, loss.backward(), optim.step(),
\* and the second compute_loss of run_loss_updates
TrainIteration ==
  /\ train_pc = "start"
  /\ DrawBatch
  /\ \E avg \in loss_fcn(score_kinds') :
         LET r == compute_loss(score_shape', sem_shape', inst_shape', inst_loaded',
                               map_to_semantic', avg)
             chk == debug_check_values_are_valid(r.loss, score_kinds')
         IN /\ inst_data' = r.inst
            /\ loss' = r.loss
            /\ IF r.exc # "none"
               THEN /\ train_exc' = r.exc
                    /\ warned' = FALSE
                    /\ loss_fcn_calls' = r.calls
                    /\ backward_calls' = 0
                    /\ optim_steps' = 0
               ELSE IF chk.exc # "none"
               THEN /\ train_exc' = chk.exc
                    /\ warned' = chk.warned
                    /\ loss_fcn_calls' = r.calls
                    /\ backward_calls' = 0
                    /\ optim_steps' = 0
               ELSE /\ train_exc' = "none"
                    /\ warned' = chk.warned
                    /\ loss_fcn_calls' = r.calls + 1
                    /\ backward_calls' = 1
                    /\ optim_steps' = 1
  /\ train_pc' = "train_iteration"
  /\ UNCHANGED <<combineVars, permuteVars, evalVars, problemVars, lossVars, loopVars>>

\* Trainer.validate_single_batch up to the exporter call: forward pass,
\* compute_loss with the evaluation loss, val_loss = float(loss)
ValidateSingleBatch ==
  /\ train_pc = "start"
  /\ DrawBatch
  /\ \E avg \in loss_fcn(score_kinds') :
         LET r == compute_loss(score_shape', sem_shape', inst_shape', inst_loaded',
                               map_to_semantic', avg)
         IN /\ inst_data' = r.inst
            /\ loss' = r.loss
            /\ train_exc' = r.exc
            /\ loss_fcn_calls' = r.calls
  /\ warned' = FALSE
  /\ backward_calls' = 0
  /\ optim_steps' = 0
  /\ train_pc' = "validate_single_batch"
  /\ UNCHANGED <<combineVars, permuteVars, evalVars, problemVars, lossVars, loopVars>>

NextTrain == TrainIteration \/ ValidateSingleBatch

SpecTrain == Init /\ [][NextTrain]_vars

\* C29: Trainer.compute_loss leaves the caller's label tensors unchanged for
\* every configuration, map_to_semantic = True included: after the call the
\* caller's inst_lbl holds the values the loader delivered.
C29_LabelsUnchanged ==
  train_pc # "start" => inst_data = inst_loaded

\* either the combiner or one of the two handlers is called
NextBoundary ==
  \/ train_pc = "start" /\ Combine
  \/ combine_pc = "start" /\ TrainIteration
  \/ combine_pc = "start" /\ ValidateSingleBatch

SpecBoundary == Init /\ [][NextBoundary]_vars

ShapesAgree ==
  /\ sem_shape = inst_shape
  /\ inst_shape = <<score_shape[1], score_shape[3], score_shape[4]>>

NonFinite == {"nan", "inf", "-inf"}

\* C5: in a training iteration, a non-finite loss or a non-finite score value
\* (NaN, +infinity, -infinity) raises ValueError, and then neither
\* loss.backward() nor optim.step() has been executed.
C5_NonFiniteStopsTraining ==
  (/\ train_pc = "train_iteration"
   /\ ShapesAgree
   /\ (loss \in NonFinite \/ score_kinds \cap NonFinite # {}))
  => (train_exc = "ValueError" /\ backward_calls = 0 /\ optim_steps = 0)

\* C6: a score tensor that contains a NaN makes the call of compute_loss end
\* in the numerical error on the validation path as on the training path, with
\* no backward pass and no optimizer step.
C6_NaNScoreRaisesEverywhere ==
  (train_pc # "start" /\ ShapesAgree /\ "nan" \in score_kinds)
  => (train_exc = "ValueError" /\ backward_calls = 0 /\ optim_steps = 0)

\* C7: when sem_lbl, inst_lbl and score do not agree on (batch, H, W),
\* compute_loss raises before the loss function is called and before a label
\* is modified; combine raises, and returns no output, when sem_lbl and
\* inst_lbl differ in shape.
C7_ShapeMismatchFailsFirst ==
  /\ (train_pc # "start" /\ ~ShapesAgree) =>
        /\ train_exc = "Exception"
        /\ loss_fcn_calls = 0
        /\ inst_data = inst_loaded
        /\ loss = "none"
  /\ (combine_pc = "done" /\ Len(sem_lbl) # Len(inst_lbl)) =>
        /\ combined.exc = "AssertionError"
        /\ combined.val = <<>>

\* map_to_semantic is set and the labels agree with each other but not with
\* the scores: the training iteration raised, the instance id 2 is still in
\* inst_lbl, the loss function was not called
C7_Witness ==
  /\ train_pc = "train_iteration"
  /\ map_to_semantic
  /\ sem_shape = <<2, 2, 1>> /\ inst_shape = <<2, 2, 1>>
  /\ score_shape = <<2, NChannels, 1, 2>>
  /\ inst_data = <<0, 2, 1, 2>>
  /\ train_exc = "Exception"
  /\ loss_fcn_calls = 0

\* ------------------------------------- specification: the problem object
\* largest number of semantic classes and largest channel count of a class
\* in the lists the object is constructed from
MaxClasses == 4
MaxCount == 3

\* any list of channel counts, valid or not
LayoutInputs == SeqsUpTo(0 .. MaxCount, MaxClasses)

\* the class-name lists handed to the object: None, or k names
ClassNameInputs ==
  {NoNames} \cup {NameList([i \in 1 .. k |-> i - 1]) : k \in 0 .. MaxClasses}

\* InstanceProblemConfig(n, names, void_value, include_instance_channel0,
\* map_to_semantic) with n drawn from inputs and the names from name_inputs
Construct(inputs, name_inputs) ==
  /\ problem_pc = "start"
  /\ \E n \in inputs, names \in name_inputs, void \in VoidVals,
        include0 \in BOOLEAN, mts \in BOOLEAN :
       /\ problem_args' = [n |-> n, names |-> names, void |-> void,
                           include0 |-> include0, mts |-> mts]
       /\ instance_problem' \in InstanceProblemConfig(n, names, void, include0, mts)
  /\ problem_exc' = instance_problem'.exc
  /\ problem_pc' = IF instance_problem'.exc = "none" THEN "constructed" ELSE "failed"
  /\ UNCHANGED <<gt_sem_lbl, gt_inst_lbl, gt_combined, loader_inst_lbl>>
  /\ UNCHANGED <<combineVars, permuteVars, evalVars, trainVars, lossVars, loopVars>>

ConstructAny == Construct(LayoutInputs, ClassNameInputs)

\* problem_config.set_class_names(class_names) on the constructed object
SetClassNames ==
  /\ problem_pc = "constructed"
  /\ \E class_names \in ClassNameInputs :
       LET r == set_class_names(instance_problem.val, class_names)
       IN /\ problem_exc' = r.exc
          /\ instance_problem' = IF r.exc = "none" THEN r ELSE instance_problem
  /\ UNCHANGED <<problem_args, gt_sem_lbl, gt_inst_lbl, gt_combined, loader_inst_lbl,
                 problem_pc>>
  /\ UNCHANGED <<combineVars, permuteVars, evalVars, trainVars, lossVars, loopVars>>

\* problem_config.decouple_instance_result(scores): not implemented
DecoupleInstanceResult ==
  /\ problem_pc = "constructed"
  /\ problem_exc' = "NotImplementedError"
  /\ UNCHANGED <<problem_args, instance_problem, gt_sem_lbl, gt_inst_lbl, gt_combined,
                 loader_inst_lbl, problem_pc>>
  /\ UNCHANGED <<combineVars, permuteVars, evalVars, trainVars, lossVars, loopVars>>

NextLayout == ConstructAny \/ SetClassNames \/ DecoupleInstanceResult

SpecLayout == Init /\ [][NextLayout]_vars

Constructed == problem_pc = "constructed"

\* the two lists of the constructed object
ProblemClassList == instance_problem.val.semantic_instance_class_list
ProblemCountIdList == instance_problem.val.instance_count_id_list

\* the channels (positions) of semantic class cls
ChannelsOfClass(sicl, cls) == {c \in 1 .. Len(sicl) : sicl[c] = cls}

RECURSIVE SumTo(_, _)
SumTo(n, i) == IF i = 0 THEN 0 ELSE n[i] + SumTo(n, i - 1)

\* a valid list of counts: one channel for the non-instance class 0, at least
\* one for every other class
ValidCounts(n) == Len(n) >= 1 /\ n[1] = 1 /\ \A i \in 1 .. Len(n) : n[i] >= 1

\* C12: for a valid list of counts the two derived lists have the length of
\* the sum of the counts, class i occupies n_i consecutive channels in
\* ascending class order, and the (class, slot) pairs of the channels are
\* pairwise distinct.
C12_LayoutIsAPartition ==
  (Constructed /\ ValidCounts(instance_problem.val.n_instances_by_semantic_id)) =>
    LET n == instance_problem.val.n_instances_by_semantic_id
    IN /\ Len(ProblemClassList) = SumTo(n, Len(n))
       /\ Len(ProblemCountIdList) = SumTo(n, Len(n))
       /\ \A i \in 1 .. Len(n) :
            ChannelsOfClass(ProblemClassList, i - 1) = SumTo(n, i - 1) + 1 .. SumTo(n, i)
       /\ \A c, d \in 1 .. Len(ProblemClassList) :
            (ProblemClassList[c] = ProblemClassList[d]
               /\ ProblemCountIdList[c] = ProblemCountIdList[d]) => c = d

\* the lists of the counts [1, 2, 3] have been derived
C12_Witness ==
  /\ Constructed
  /\ problem_args.n = <<1, 2, 3>> /\ ~problem_args.mts /\ ~problem_args.include0
  /\ ProblemClassList = <<0, 1, 1, 2, 2, 2>>
  /\ ProblemCountIdList = <<0, 1, 2, 1, 2, 3>>

\* C13: the channel of the non-instance class has slot 0; the first channel
\* of any other class has slot 1 (0 with include_channel0) and each further
\* channel of the class the next slot; [0,1,1,1,2,2,2,3,3,3] gives
\* [0,1,2,3,1,2,3,1,2,3], and [0,0,1,2,0,1,2,0,1,2] with include_channel0.
C13_SlotsCountUp ==
  Constructed =>
    LET sicl == ProblemClassList
        icil == ProblemCountIdList
        first == IF instance_problem.val.include_instance_channel0 THEN 0 ELSE 1
    IN /\ Len(icil) = Len(sicl)
       /\ \A c \in 1 .. Len(sicl) :
            IF sicl[c] \in NonInstanceSemClasses THEN icil[c] = 0
            ELSE IF c > 1 /\ sicl[c - 1] = sicl[c] THEN icil[c] = icil[c - 1] + 1
            ELSE icil[c] = first
       /\ sicl = <<0, 1, 1, 1, 2, 2, 2, 3, 3, 3>> =>
            icil = IF instance_problem.val.include_instance_channel0
                   THEN <<0, 0, 1, 2, 0, 1, 2, 0, 1, 2>>
                   ELSE <<0, 1, 2, 3, 1, 2, 3, 1, 2, 3>>

\* the list of the docstring has been numbered with include_channel0
C13_Witness ==
  /\ Constructed
  /\ instance_problem.val.include_instance_channel0
  /\ ProblemClassList = <<0, 1, 1, 1, 2, 2, 2, 3, 3, 3>>
  /\ ProblemCountIdList = <<0, 0, 1, 2, 0, 1, 2, 0, 1, 2>>

\* C14: constructing the object from a list in which some class has count 0
\* fails; no layout is produced.
C14_ZeroCountFails ==
  (problem_pc # "start" /\ \E i \in 1 .. Len(problem_args.n) : problem_args.n[i] = 0)
    => problem_pc = "failed"

\* C15: constructing the object from a list whose count for class 0 is not 1
\* fails, with map_to_semantic False and True.
C15_ClassZeroHasOneChannel ==
  (problem_pc # "start" /\ problem_args.n[1] # 1) => problem_pc = "failed"

\* C16 (as stated): once constructed, no operation changes a field of the
\* object.
C16_NoFieldChanges ==
  [][Constructed => instance_problem' = instance_problem]_vars

\* C16 (amended): once constructed, no operation changes a field of the
\* object other than semantic_class_names, which set_class_names replaces.
C16_OnlyClassNamesChange ==
  [][Constructed =>
       /\ instance_problem'.exc = "none"
       /\ [instance_problem'.val EXCEPT
             !.semantic_class_names = instance_problem.val.semantic_class_names]
            = instance_problem.val]_vars

\* set_class_names has given names to an object constructed without them
C16_Witness ==
  /\ Constructed
  /\ problem_args.names = NoNames
  /\ instance_problem.val.semantic_class_names = NameList(<<0, 1>>)
  /\ instance_problem.val.n_instances_by_semantic_id = <<1, 2>>

\* the class list of the model's channels and the matrix built from it
ModelClassList == instance_problem.val.model_semantic_instance_class_list
MappingMatrix == instance_problem.val.instance_to_semantic_mapping_matrix

\* C21: get_instance_to_semantic_mapping(n) returns an N x S binary matrix
\* (N channels, S semantic classes): row inst_idx is one-hot, and the entry
\* [inst_idx, sem_idx] is 1 iff channel inst_idx belongs to class sem_idx.
C21_MappingIsNByS ==
  Constructed =>
    LET N == Len(ModelClassList)
        S == MaxOf(Range(ModelClassList)) + 1
    IN /\ Len(MappingMatrix) = N
       /\ \A inst_idx \in 1 .. N :
            /\ Len(MappingMatrix[inst_idx]) = S
            /\ \A sem_idx \in 1 .. S :
                 MappingMatrix[inst_idx][sem_idx] =
                   IF ModelClassList[inst_idx] = sem_idx - 1 THEN 1 ELSE 0

\* ------------------------- specification: the readers of the problem object
\* the object of a run: a valid list of counts, the names not given yet
ConstructValid == Construct(Layouts, {NoNames})

\* the values a ground-truth pixel can carry when the object was given void
GtSemVals(void) == SemVals \cup {void, DefaultVoid}
GtInstVals(void) == InstVals \cup {void, DefaultVoid}

\* exporter.gt_tuple_to_combined(sem_lbl, inst_lbl) on the maps of one image
GtTupleToCombined ==
  /\ problem_pc = "constructed"
  /\ \E k \in 1 .. MaxPix :
       /\ gt_sem_lbl' \in [1 .. k -> GtSemVals(instance_problem.val.void_value)]
       /\ gt_inst_lbl' \in [1 .. k -> GtInstVals(instance_problem.val.void_value)]
  /\ gt_combined' = gt_tuple_to_combined(instance_problem.val, gt_sem_lbl', gt_inst_lbl')
  /\ problem_pc' = "combined"
  /\ UNCHANGED <<problem_args, instance_problem, problem_exc, loader_inst_lbl>>
  /\ UNCHANGED <<combineVars, permuteVars, evalVars, trainVars, lossVars, loopVars>>

\* prepare_data_for_forward_pass on the target of a loader of semantic
\* labels only (loader_semantic_lbl_only and use_semantic_loss set)
PrepareSemanticOnlyData ==
  /\ problem_pc = "constructed"
  /\ \E k \in 1 .. MaxPix :
       gt_sem_lbl' \in [1 .. k -> GtSemVals(instance_problem.val.void_value)]
  /\ LET r == prepare_data_for_forward_pass(TRUE, TRUE, gt_sem_lbl')
     IN /\ problem_exc' = r.exc
        /\ loader_inst_lbl' = r.val[2]
  /\ problem_pc' = "prepared"
  /\ UNCHANGED <<problem_args, instance_problem, gt_inst_lbl, gt_combined>>
  /\ UNCHANGED <<combineVars, permuteVars, evalVars, trainVars, lossVars, loopVars>>

NextProblem == ConstructValid \/ GtTupleToCombined \/ PrepareSemanticOnlyData

SpecProblem == Init /\ [][NextProblem]_vars

GtCombinedReturned == problem_pc = "combined" /\ gt_combined.exc = "none"

\* some channel owns the pair (cls, id) and every pixel carrying the pair has
\* been given the index of that channel
PairOwnedAndAssigned(cls, id) ==
  \E c \in ChannelsOfClass(ProblemClassList, cls) :
    /\ ProblemCountIdList[c] = id
    /\ \A p \in 1 .. Len(gt_combined.val) :
         (gt_sem_lbl[p] = cls /\ gt_inst_lbl[p] = id) => gt_combined.val[p] = c - 1

SlotIds(cls, k) ==
  IF cls \in NonInstanceSemClasses \/ instance_problem.val.include_instance_channel0
  THEN 0 .. k - 1 ELSE 1 .. k

C17_ConfiguredVoidMarks ==
  /\ GtCombinedReturned =>
       \A p \in 1 .. Len(gt_combined.val) :
         (~\E c \in 1 .. Len(ProblemClassList) :
             /\ ProblemClassList[c] = gt_sem_lbl[p]
             /\ ProblemCountIdList[c] = gt_inst_lbl[p])
           => gt_combined.val[p] = instance_problem.val.void_value
  /\ problem_pc = "prepared" =>
       \A p \in 1 .. Len(loader_inst_lbl) :
         gt_sem_lbl[p] = instance_problem.val.void_value
           <=> loader_inst_lbl[p] = instance_problem.val.void_value

\* --------------------------------- specification: loss objects and matching
\* largest number of predicted slots of a class handed to the solver
MaxSlots == 3

LossTypes == {"cross_entropy", "soft_iou"}

\* Trainer.__init__: the two loss objects
TrainerInit ==
  /\ loss_pc = "start"
  /\ \E matching \in BOOLEAN, loss_type \in LossTypes, size_average \in BOOLEAN :
       LET self == [matching_loss |-> matching, loss_type |-> loss_type,
                    size_average |-> size_average,
                    semantic_instance_class_list |-> EngineClassList,
                    instance_count_id_list |-> EngineCountIdList]
       IN /\ matching_loss' = matching
          /\ loss_object' = build_my_loss(self, "None")
          /\ eval_loss_object_with_matching' = build_my_loss(self, "None")
  /\ loss_pc' = "built"
  /\ UNCHANGED <<val_matching_override, cost_matrices, loss_result, cost_matrix, solution>>
  /\ UNCHANGED <<combineVars, permuteVars, evalVars, trainVars, problemVars, loopVars>>

\* the square cost matrices of one image, one per semantic class
ImageCostMatrices ==
  {M \in [1 .. Len(EngineLayout) -> UNION {[1 .. k -> [1 .. k -> CostVals]] : k \in 1 .. 2}] :
     \A i \in 1 .. Len(EngineLayout) : Len(M[i]) = EngineLayout[i]}

\* Trainer.compute_loss(score, sem_lbl, inst_lbl, val_matching_override) on a
\* batch whose shapes agree: the call of the loss function
ComputeLoss ==
  /\ loss_pc = "built"
  /\ val_matching_override' \in BOOLEAN
  /\ \E b \in 1 .. MaxBatch : cost_matrices' \in [1 .. b -> ImageCostMatrices]
  /\ loss_result' = compute(loss_object_of_compute_loss(val_matching_override', loss_object,
                                                        eval_loss_object_with_matching),
                            cost_matrices')
  /\ loss_pc' = "computed"
  /\ UNCHANGED <<matching_loss, loss_object, eval_loss_object_with_matching, cost_matrix,
                 solution>>
  /\ UNCHANGED <<combineVars, permuteVars, evalVars, trainVars, problemVars, loopVars>>

\* one call of the assignment solver, on the cost matrix of k predicted slots
\* and m <= k ground-truth instances
Solve ==
  /\ loss_pc = "start"
  /\ \E k \in 1 .. MaxSlots, m \in 0 .. MaxSlots :
       /\ m <= k
       /\ cost_matrix' \in [1 .. k -> [1 .. m -> CostVals]]
  /\ solution' = solve(cost_matrix')
  /\ loss_pc' = "solved"
  /\ UNCHANGED <<matching_loss, loss_object, eval_loss_object_with_matching,
                 val_matching_override, cost_matrices, loss_result>>
  /\ UNCHANGED <<combineVars, permuteVars, evalVars, trainVars, problemVars, loopVars>>

NextLoss == TrainerInit \/ ComputeLoss \/ Solve

SpecLoss == Init /\ [][NextLoss]_vars

\* C18: the evaluation loss object has matching enabled, whatever the
\* matching_loss setting of the trainer is.
C18_EvalObjectMatches ==
  loss_pc \in {"built", "computed"} => eval_loss_object_with_matching.matching

\* the cost of predicted slot i taking ground-truth instance i, for the
\* instances present
RECURSIVE IdentityCost(_, _)
IdentityCost(C, j) == IF j = 0 THEN 0 ELSE C[j][j] + IdentityCost(C, j - 1)

\* the cost of the entries a permutation selects among the instances present
RECURSIVE PermutationCost(_, _, _)
PermutationCost(C, perm, i) ==
  IF i = 0 THEN 0
  ELSE (IF perm[i] + 1 <= Len(C[1]) THEN C[i][perm[i] + 1] ELSE 0)
         + PermutationCost(C, perm, i - 1)

\* C19: the permutation of the assignment solver is a bijection on
\* 0..k-1 that gives every predicted slot a ground-truth slot, also when
\* there are fewer ground-truth instances than slots, and the cost it
\* achieves is at most the cost of the identity permutation.
C19_SolverPermutationValid ==
  loss_pc = "solved" =>
    LET k == Len(cost_matrix)
        m == Len(cost_matrix[1])
        perm == solution.permutation
    IN /\ Len(perm) = k
       /\ Range(perm) = 0 .. k - 1
       /\ solution.achieved_cost = PermutationCost(cost_matrix, perm, k)
       /\ solution.achieved_cost <= IdentityCost(cost_matrix, m)

\* three slots, two instances: the instances went to slots 1 and 2 at no
\* cost, where the identity costs 2, and slot 0 took the remaining id 2
C19_Witness ==
  /\ loss_pc = "solved"
  /\ cost_matrix = <<<<1, 1>>, <<0, 1>>, <<1, 0>>>>
  /\ solution.permutation = <<2, 0, 1>>
  /\ solution.achieved_cost = 0

MaxIteration == 3
MaxLoaderLen == 3
MaxMeanIU == 2

\* the mean IU of a validation, in steps of 1 / MaxMeanIU
MeanIUs == 0 .. MaxMeanIU

OtherVars == <<combineVars, permuteVars, evalVars, trainVars, problemVars, lossVars>>

\* TrainingState.training_complete
training_complete(state) == state.iteration >= state.max_iteration

\* int(math.ceil(1. * a / b))
CeilDiv(a, b) == (a + b - 1) \div b

\* mutant: no batch is skipped
resuming_never(state, iteration) == FALSE

\* the test of train_epoch that skips a batch ("continue  # for resuming")
resuming(state, iteration) ==
  state.iteration # 0 /\ (iteration - 1) # state.iteration

\* mutant: no validation before the first iteration
validation_due_after_start(state, interval_validate) ==
  state.iteration # 0 /\ state.iteration % interval_validate = 0

\* the test of train_epoch that runs the validation epochs
validation_due(state, interval_validate) ==
  state.iteration % interval_validate = 0

\* mutant: every validation becomes the best
save_checkpoint_and_update_always(self, mean_iu) ==
  [self |-> [self EXCEPT !.best_mean_iu = mean_iu], saved |-> TRUE, copied |-> TRUE]

\* Trainer.save_checkpoint_and_update_if_best: exporter.save_checkpoint writes
\* the checkpoint file, exporter.copy_checkpoint_as_best copies it to model_best
save_checkpoint_and_update_if_best(self, mean_iu) ==
  LET better == mean_iu > self.best_mean_iu \/ self.best_mean_iu = 0
  IN [self |-> IF better THEN [self EXCEPT !.best_mean_iu = mean_iu] ELSE self,
      saved |-> TRUE,
      copied |-> better]

\* mutant: the model stays in evaluation mode
validate_split_leaving_eval(self, split, mean_iu) ==
  LET kept == IF split = "val"
              THEN save_checkpoint_and_update_if_best(
                     [self EXCEPT !.model_training = FALSE], mean_iu)
              ELSE [self |-> [self EXCEPT !.model_training = FALSE],
                    saved |-> FALSE, copied |-> FALSE]
  IN [self |-> kept.self,
      val |-> [ran |-> TRUE, mean_iu |-> mean_iu, best_before |-> self.best_mean_iu,
               saved |-> kept.saved, copied |-> kept.copied,
               mode_before |-> self.model_training, mode_after |-> FALSE]]

\* Trainer.validate_split(split) on well-formed batches: the model is put in
\* evaluation mode, the batches are validated, a 'val' validation with mean IU
\* mean_iu (val_metrics[2]) saves a checkpoint, the mode is restored
validate_split(self, split, mean_iu) ==
  LET save_checkpoint == (split = "val")
      training == self.model_training
      evaluating == [self EXCEPT !.model_training = FALSE]
      kept == IF save_checkpoint
              THEN save_checkpoint_and_update_if_best(evaluating, mean_iu)
              ELSE [self |-> evaluating, saved |-> FALSE, copied |-> FALSE]
      restored == IF training THEN [kept.self EXCEPT !.model_training = TRUE]
                  ELSE kept.self
  IN [self |-> restored,
      val |-> [ran |-> TRUE, mean_iu |-> mean_iu, best_before |-> self.best_mean_iu,
               saved |-> kept.saved, copied |-> kept.copied,
               mode_before |-> training, mode_after |-> restored.model_training]]

\* what validate_all_splits returns: train_metrics, train_loss, val_metrics,
\* val_loss, each "None" or the value of the named split
AllSplits(self) ==
  [train_metrics |-> IF self.train_loader_for_val THEN "train" ELSE "None",
   train_loss |-> IF self.train_loader_for_val THEN "train" ELSE "None",
   val_metrics |-> "val",
   val_loss |-> "val"]

\* Trainer.validate_all_splits: 'val', then 'train' when there is a
\* train_loader_for_val; with a tensorboard writer val_loss - train_loss is
\* written, and float - None raises TypeError
validate_all_splits(self, mean_iu) ==
  LET val == validate_split(self, "val", mean_iu)
      after == IF self.train_loader_for_val
               THEN validate_split(val.self, "train", mean_iu).self
               ELSE val.self
  IN [self |-> after,
      val |-> val.val,
      result |-> IF self.tensorboard_writer /\ ~self.train_loader_for_val
                 THEN Raise("TypeError")
                 ELSE Return(AllSplits(self))]

\* Trainer.train_iteration: assert self.model.training; a NaN loss raises
\* ValueError before the backward pass; the gradient histograms are written
\* through exporter.tensorboard_writer, and None.add_histogram raises
\* AttributeError; run_loss_updates switches to evaluation mode and back
train_iteration(self, loss_is_nan) ==
  IF ~self.model_training THEN [self |-> self, exc |-> "AssertionError"]
  ELSE IF loss_is_nan THEN [self |-> self, exc |-> "ValueError"]
  ELSE IF ~self.tensorboard_writer THEN [self |-> self, exc |-> "AttributeError"]
  ELSE [self |-> [[self EXCEPT !.model_training = FALSE] EXCEPT !.model_training = TRUE],
        exc |-> "none"]

Event(op, self) ==
  [op |-> op, iteration |-> self.state.iteration, training |-> self.model_training]

Larger(a, b) == IF a >= b THEN a ELSE b

\* Trainer(...): the arguments train() depends on; the model arrives in
\* whatever mode the caller left it in
NewTrainer ==
  /\ loop_pc = "start"
  /\ \E max_iter \in 1 .. MaxIteration, len \in 1 .. MaxLoaderLen,
        interval_is_none \in BOOLEAN, interval \in 1 .. MaxLoaderLen,
        scheduler \in BOOLEAN, writer \in BOOLEAN, loader_for_val \in BOOLEAN,
        mode \in BOOLEAN :
       /\ interval_is_none => interval = 1
       /\ trainer' = [state |-> TrainingState(max_iter),
                      interval_validate |-> IF interval_is_none THEN len ELSE interval,
                      len_train_loader |-> len,
                      lr_scheduler |-> scheduler,
                      tensorboard_writer |-> writer,
                      train_loader_for_val |-> loader_for_val,
                      model_training |-> mode,
                      best_mean_iu |-> 0]
  /\ loop_pc' = "idle"
  /\ UNCHANGED <<epoch, max_epoch, batch_idx, trace, last_val, max_mean_iu_seen,
                 start_iteration, all_splits_result, loop_exc>>
  /\ UNCHANGED OtherVars

\* the caller restores the epoch and the iteration of a checkpoint into the
\* training state before train() (the fields the resuming test reads)
Resume ==
  /\ loop_pc = "idle"
  /\ trainer.state.iteration = 0 /\ trainer.state.epoch = 0
  /\ \E k \in 1 .. MaxIteration, e \in 0 .. MaxIteration :
       trainer' = [trainer EXCEPT !.state.iteration = k, !.state.epoch = e]
  /\ UNCHANGED <<epoch, max_epoch, batch_idx, trace, last_val, max_mean_iu_seen,
                 start_iteration, all_splits_result, loop_exc, loop_pc>>
  /\ UNCHANGED OtherVars

\* train(): max_epoch and the range of the epoch loop
Train ==
  /\ loop_pc = "idle"
  /\ max_epoch' = CeilDiv(trainer.state.max_iteration, trainer.len_train_loader)
  /\ epoch' = trainer.state.epoch
  /\ start_iteration' = trainer.state.iteration
  /\ loop_pc' = "train_for"
  /\ UNCHANGED <<trainer, batch_idx, trace, last_val, max_mean_iu_seen,
                 all_splits_result, loop_exc>>
  /\ UNCHANGED OtherVars

\* the next epoch of train() and the head of train_epoch(): model.train(),
\* and with a scheduler validate_split('val') and lr_scheduler.step
TrainEpochBegin ==
  /\ loop_pc = "train_for"
  /\ epoch < max_epoch
  /\ LET entered == [trainer EXCEPT !.state.epoch = epoch, !.model_training = TRUE]
     IN IF trainer.lr_scheduler
        THEN \E mean_iu \in MeanIUs :
               LET v == validate_split(entered, "val", mean_iu)
               IN /\ trainer' = v.self
                  /\ last_val' = v.val
                  /\ max_mean_iu_seen' = Larger(max_mean_iu_seen, mean_iu)
                  /\ trace' = Append(trace, Event("validate_split", entered))
        ELSE /\ trainer' = entered
             /\ UNCHANGED <<last_val, max_mean_iu_seen, trace>>
  /\ batch_idx' = 0
  /\ loop_pc' = "batch_for"
  /\ UNCHANGED <<epoch, max_epoch, start_iteration, all_splits_result, loop_exc>>
  /\ UNCHANGED OtherVars

\* the epoch range of train() is exhausted: train() returns
TrainReturn ==
  /\ loop_pc = "train_for"
  /\ epoch >= max_epoch
  /\ loop_pc' = "returned"
  /\ UNCHANGED <<trainer, epoch, max_epoch, batch_idx, trace, last_val,
                 max_mean_iu_seen, start_iteration, all_splits_result, loop_exc>>
  /\ UNCHANGED OtherVars

\* the iteration of the batch at the head of the loop of train_epoch
BatchIteration == batch_idx + trainer.state.epoch * trainer.len_train_loader

\* a batch that the resuming test skips
SkipBatch ==
  /\ loop_pc = "batch_for"
  /\ batch_idx < trainer.len_train_loader
  /\ resuming(trainer.state, BatchIteration)
  /\ batch_idx' = batch_idx + 1
  /\ UNCHANGED <<trainer, epoch, max_epoch, trace, last_val, max_mean_iu_seen,
                 start_iteration, all_splits_result, loop_exc, loop_pc>>
  /\ UNCHANGED OtherVars

\* a batch that is trained on: self.state.iteration = iteration, and the test
\* whether validation is due
StartBatch ==
  /\ loop_pc = "batch_for"
  /\ batch_idx < trainer.len_train_loader
  /\ ~resuming(trainer.state, BatchIteration)
  /\ trainer' = [trainer EXCEPT !.state.iteration = BatchIteration]
  /\ loop_pc' = IF validation_due(trainer'.state, trainer.interval_validate)
                THEN "validate_before" ELSE "train_iteration"
  /\ UNCHANGED <<epoch, max_epoch, batch_idx, trace, last_val, max_mean_iu_seen,
                 start_iteration, all_splits_result, loop_exc>>
  /\ UNCHANGED OtherVars

\* one call of validate_all_splits and what it leaves behind
CallValidateAllSplits(logged) ==
  \E mean_iu \in MeanIUs :
    LET r == validate_all_splits(trainer, mean_iu)
    IN /\ trainer' = r.self
       /\ last_val' = r.val
       /\ max_mean_iu_seen' = Larger(max_mean_iu_seen, mean_iu)
       /\ all_splits_result' = r.result
       /\ trace' = IF logged THEN Append(trace, Event("validate_all_splits", trainer))
                   ELSE trace

\* validate_all_splits before the training iteration
ValidateBefore ==
  /\ loop_pc = "validate_before"
  /\ CallValidateAllSplits(TRUE)
  /\ loop_exc' = all_splits_result'.exc
  /\ loop_pc' = IF all_splits_result'.exc = "none" THEN "train_iteration" ELSE "raised"
  /\ UNCHANGED <<epoch, max_epoch, batch_idx, start_iteration>>
  /\ UNCHANGED OtherVars

\* train_iteration(img_data, target) and the test of training_complete()
TrainStep ==
  /\ loop_pc = "train_iteration"
  /\ \E loss_is_nan \in BOOLEAN :
       LET r == train_iteration(trainer, loss_is_nan)
       IN /\ trainer' = r.self
          /\ loop_exc' = r.exc
          /\ loop_pc' = IF r.exc # "none" THEN "raised"
                        ELSE IF training_complete(r.self.state) THEN "validate_after"
                        ELSE "batch_for"
          /\ batch_idx' = IF r.exc = "none" /\ ~training_complete(r.self.state)
                          THEN batch_idx + 1 ELSE batch_idx
  /\ trace' = Append(trace, Event("train_iteration", trainer))
  /\ UNCHANGED <<epoch, max_epoch, last_val, max_mean_iu_seen, start_iteration,
                 all_splits_result>>
  /\ UNCHANGED OtherVars

\* validate_all_splits once training is complete, the break of train_epoch
\* and the break of train()
ValidateAfter ==
  /\ loop_pc = "validate_after"
  /\ CallValidateAllSplits(TRUE)
  /\ loop_exc' = all_splits_result'.exc
  /\ loop_pc' = IF all_splits_result'.exc = "none" THEN "returned" ELSE "raised"
  /\ UNCHANGED <<epoch, max_epoch, batch_idx, start_iteration>>
  /\ UNCHANGED OtherVars

\* the loader is exhausted: train_epoch returns, train() tests
\* training_complete() and goes on to the next epoch
TrainEpochEnd ==
  /\ loop_pc = "batch_for"
  /\ batch_idx >= trainer.len_train_loader
  /\ IF training_complete(trainer.state)
     THEN loop_pc' = "returned" /\ epoch' = epoch
     ELSE loop_pc' = "train_for" /\ epoch' = epoch + 1
  /\ UNCHANGED <<trainer, max_epoch, batch_idx, trace, last_val, max_mean_iu_seen,
                 start_iteration, all_splits_result, loop_exc>>
  /\ UNCHANGED OtherVars

\* the caller validates after train(): trainer.validate_split()
ValidateSplitAfterTrain ==
  /\ loop_pc = "returned"
  /\ \E mean_iu \in MeanIUs :
       LET v == validate_split(trainer, "val", mean_iu)
       IN /\ trainer' = v.self
          /\ last_val' = v.val
          /\ max_mean_iu_seen' = Larger(max_mean_iu_seen, mean_iu)
  /\ UNCHANGED <<epoch, max_epoch, batch_idx, trace, start_iteration,
                 all_splits_result, loop_exc, loop_pc>>
  /\ UNCHANGED OtherVars

\* the caller validates after train(): trainer.validate_all_splits()
ValidateAllSplitsAfterTrain ==
  /\ loop_pc = "returned"
  /\ CallValidateAllSplits(FALSE)
  /\ UNCHANGED <<epoch, max_epoch, batch_idx, start_iteration, loop_exc, loop_pc>>
  /\ UNCHANGED OtherVars

NextLoop ==
  \/ NewTrainer \/ Resume \/ Train \/ TrainEpochBegin \/ TrainReturn
  \/ SkipBatch \/ StartBatch \/ ValidateBefore \/ TrainStep \/ ValidateAfter
  \/ TrainEpochEnd \/ ValidateSplitAfterTrain \/ ValidateAllSplitsAfterTrain

SpecLoop == Init /\ [][NextLoop]_vars

\* the training iterations train() has started so far, in order
IsStep(ev) == ev.op = "train_iteration"
Steps == SelectSeq(trace, IsStep)

\* train() was entered with the state as constructed / with a restored state
FreshStart == loop_pc \notin {"start", "idle"} /\ start_iteration = 0
Resumed == loop_pc \notin {"start", "idle"} /\ start_iteration > 0

StepsFollowResume ==
  Resumed =>
    /\ \A j \in 1 .. Len(Steps) : Steps[j].iteration > start_iteration
    /\ Len(Steps) >= 1 => Steps[1].iteration = start_iteration + 1
    /\ \A j \in 2 .. Len(Steps) : Steps[j].iteration = Steps[j - 1].iteration + 1

\* C22: when train() is started with state.iteration = k > 0, no training
\* step runs for a batch whose iteration index is <= k, the first step that
\* runs has iteration k + 1, every later step has the iteration of the step
\* before it plus one, and state.iteration never decreases.
C22_ResumeSkipsDone ==
  [][StepsFollowResume' /\ trainer'.state.iteration >= trainer.state.iteration]_vars

\* resumed at iteration 1: the batches 0 and 1 were skipped, the steps 2 and 3 ran
C22_Witness ==
  /\ Resumed
  /\ start_iteration = 1
  /\ loop_pc = "returned"
  /\ Len(Steps) = 2
  /\ Steps[1].iteration = 2
  /\ Steps[2].iteration = 3

\* C23: from a fresh start (iteration 0, epoch 0), for every max_iteration
\* >= 1 and every loader length >= 1, train() terminates, and when it has
\* returned training_complete() holds (iteration >= max_iteration).
C23_ReturnsComplete ==
  (FreshStart /\ loop_pc = "returned") => training_complete(trainer.state)

\* C24: from a fresh start train() executes exactly max_iteration training
\* steps for every loader length, and train_iteration is never run once
\* state.iteration has reached max_iteration.
C24_ExactlyMaxIterationSteps ==
  FreshStart =>
    /\ loop_pc = "returned" => Len(Steps) = trainer.state.max_iteration
    /\ \A j \in 1 .. Len(Steps) : Steps[j].iteration < trainer.state.max_iteration

IsValidation(ev) == ev.op = "validate_all_splits"

\* the event at position j is the call op for iteration i
IsCall(j, op, i) ==
  j \in 1 .. Len(trace) /\ trace[j].op = op /\ trace[j].iteration = i

\* C25: during train() without an lr_scheduler, validate_all_splits runs
\* immediately before the training step of iteration i iff
\* i % interval_validate = 0 (iteration 0 included), and once more right after
\* the training step that makes training_complete() true; there is no other
\* validation inside the loop.
C25_ValidationSchedule ==
  ~trainer.lr_scheduler =>
    /\ \A j \in 1 .. Len(trace) :
         IsStep(trace[j]) =>
           /\ IsCall(j - 1, "validate_all_splits", trace[j].iteration)
                <=> trace[j].iteration % trainer.interval_validate = 0
           /\ (trace[j].iteration >= trainer.state.max_iteration /\ j < Len(trace))
                => IsCall(j + 1, "validate_all_splits", trace[j].iteration)
           /\ (trace[j].iteration >= trainer.state.max_iteration /\ j = Len(trace))
                => loop_pc \in {"validate_after", "raised"}
    /\ \A j \in 1 .. Len(trace) :
         /\ IsStep(trace[j]) \/ IsValidation(trace[j])
         /\ IsValidation(trace[j]) =>
              \/ /\ trace[j].iteration % trainer.interval_validate = 0
                 /\ j = Len(trace) \/ IsCall(j + 1, "train_iteration", trace[j].iteration)
              \/ /\ IsCall(j - 1, "train_iteration", trace[j].iteration)
                 /\ trace[j].iteration >= trainer.state.max_iteration

\* validation every second iteration: before step 0, not before step 1, and
\* once more after step 1, which completes the training
C25_Witness ==
  /\ ~trainer.lr_scheduler
  /\ trainer.interval_validate = 2
  /\ loop_pc = "returned"
  /\ Len(trace) = 4
  /\ IsCall(1, "validate_all_splits", 0)
  /\ IsCall(2, "train_iteration", 0)
  /\ IsCall(3, "train_iteration", 1)
  /\ IsCall(4, "validate_all_splits", 1)

\* C26: the model is in training mode at the start of every train_iteration
\* that train() executes, so the assertion of train_iteration never fails:
\* validate_split leaves the model in the mode it found it in, and so does the
\* recomputation of the loss after the optimizer step.
C26_TrainingModeAtEveryStep ==
  /\ \A j \in 1 .. Len(trace) : IsStep(trace[j]) => trace[j].training
  /\ loop_exc # "AssertionError"
  /\ last_val.ran => last_val.mode_after = last_val.mode_before
  /\ loop_pc \in {"train_iteration", "validate_after"} => trainer.model_training
  /\ (loop_pc = "batch_for" /\ Len(trace) >= 1) => trainer.model_training

\* a validation ran before the first step, the step returned and went
\* through the loss recomputation, and the second step started in training mode
C26_Witness ==
  /\ Len(trace) >= 3
  /\ IsValidation(trace[1])
  /\ IsStep(trace[2])
  /\ IsStep(trace[3])
  /\ trace[3].training
  /\ last_val.ran
  /\ last_val.mode_before

\* what holds after a 'val' validation
BestFollowsValidations ==
  last_val.ran =>
    /\ trainer.best_mean_iu = max_mean_iu_seen
    /\ last_val.copied <=>
         (last_val.mean_iu > last_val.best_before \/ last_val.best_before = 0)
    /\ last_val.saved

\* C27: across any sequence of 'val' validations with non-negative mean IU
\* values best_mean_iu never decreases and after each validation equals the
\* largest mean IU seen so far; model_best is overwritten exactly when the new
\* mean IU exceeds best_mean_iu or best_mean_iu is still 0; and a checkpoint
\* file is saved at every 'val' validation.
C27_BestMeanIUIsRunningMax ==
  [][BestFollowsValidations' /\ trainer'.best_mean_iu >= trainer.best_mean_iu]_vars

\* a validation that is worse than the best so far: a checkpoint is saved,
\* model_best is kept
C27_Witness ==
  /\ last_val.ran
  /\ last_val.best_before = 2
  /\ last_val.mean_iu = 1
  /\ last_val.saved
  /\ ~last_val.copied
  /\ trainer.best_mean_iu = 2

\* validate_all_splits has been called
AllSplitsCalled == all_splits_result.exc # "not called"

\* C28: validate_all_splits completes without error when train_loader_for_val
\* is None, and returns None for the train metrics and the train loss together
\* with the 'val' results, whether or not a tensorboard writer is attached.
C28_ValidatesWithoutTrainLoader ==
  (AllSplitsCalled /\ ~trainer.train_loader_for_val) =>
    /\ all_splits_result.exc = "none"
    /\ all_splits_result.val.train_metrics = "None"
    /\ all_splits_result.val.train_loss = "None"
    /\ all_splits_result.val.val_metrics = "val"
    /\ all_splits_result.val.val_loss = "val"

====
